---- MODULE Spec2Model ----
(***************************************************************************)
(* Plant-Monitoring front end: the TemperatureChart component              *)
(* (src/src/components/TemperatureChart.tsx) and the historical-data       *)
(* service ApiService (src/unnamed/part_001).                              *)
(*                                                                         *)
(* Units.  Timestamps are integer milliseconds, as in the code.            *)
(* Temperatures are integers in tenths of a degree (the code rounds every  *)
(* temperature to one decimal: Math.round(t * 10) / 10), so the threshold  *)
(* 5 is 50.  Zoom positions and zoom widths are integers in thousandths    *)
(* of a percentage point (99.99 is 99990, the ceiling 0.005 is 5), which   *)
(* is the finest grain any literal of the code needs.  Arithmetic is exact *)
(* where the code uses IEEE doubles.                                       *)
(***************************************************************************)
EXTENDS Integers, Sequences, FiniteSets

\* ----------------------------------------------------------------- bounds

\* Points of history before "now" that generateDummyData produces: the code
\* produces the 3 days before now at one point per second; here the same 3
\* days at HistorySteps equal steps (see HistoryStride).
HistorySteps == 1

\* Live ticks the model follows.
MaxTicks == 2

\* The wall clock (Date.now()) when the component is constructed, in ms
\* since an origin more than 3 days back.
ClockStart == 300000000

\* Longest series handed to detectSpikes in SpecSpikes.
MaxSeriesLen == 3

\* Distance from each ceiling of ZOOM_LEVELS of the widths tried in SpecZoom.
WidthSlack == 1

\* Requests the callers of ApiService issue in SpecApi.
MaxRequests == 3

\* Points beyond the loaded history that a bounded buffer may hold (see BoundedLength).
BufferMargin == 1

\* Calls of SignalRService.startConnection in SpecSignalR.
MaxStartCalls == 3

\* Calls of SignalRService.onPlantTemperatureReceived in SpecSignalR.
MaxRegistrations == 2

\* 'ReceivePlantTemperature' messages the hub sends in SpecSignalR.
MaxMessages == 2

\* Times the established connection is lost in SpecSignalR.
MaxLosses == 1

\* ------------------------------------------------------ program constants

\* setInterval(updateChartData, 1000); also the step of generateDummyData.
StepMs == 1000

\* SPIKE_CONFIG, in tenths of a degree.
upperThreshold == 50

lowerThreshold == -50

SPIKE_CONFIG_enabled == TRUE

\* 1000 * 60 * 60, the divisor of visibleRangeHours.
MsPerHour == 3600000

\* visibleRangeHours <= 3
ZoomedInHours == 3

\* A zoom position of 100 (percent), in thousandths: zoom positions are
\* divided by 100 when projected onto the series.
Percent100 == 100000

\* JavaScript's undefined among zoom positions (let start, end; a batch item
\* or an event without the field), as a value no arithmetic of the model reaches.
undefined == -900000001

\* The NaN that arithmetic on undefined yields; every comparison with it is false.
NaN == -900000002

\* ZOOM_LEVELS in the order of Object.entries: the keys are not integer
\* indices, so the order is the order of insertion.
ZOOM_LEVELS ==
    << [key |-> "0.005", level |-> "1 Second"],
       [key |-> "0.02",  level |-> "30 Seconds"],
       [key |-> "0.05",  level |-> "1 Minute"],
       [key |-> "0.1",   level |-> "5 Minutes"],
       [key |-> "0.2",   level |-> "15 Minutes"],
       [key |-> "0.3",   level |-> "30 Minutes"],
       [key |-> "0.5",   level |-> "1 Hour"],
       [key |-> "0.7",   level |-> "4 Hours"],
       [key |-> "0.85",  level |-> "12 Hours"],
       [key |-> "0.95",  level |-> "1 Day"] >>

\* parseFloat on the keys of ZOOM_LEVELS, in thousandths.
parseFloat(s) ==
    CASE s = "0.005" -> 5
      [] s = "0.02"  -> 20
      [] s = "0.05"  -> 50
      [] s = "0.1"   -> 100
      [] s = "0.2"   -> 200
      [] s = "0.3"   -> 300
      [] s = "0.5"   -> 500
      [] s = "0.7"   -> 700
      [] s = "0.85"  -> 850
      [] s = "0.95"  -> 950

\* ------------------------------------------------------------------ state

VARIABLES
    phase,              \* "constructed" (rendered, effects not yet run), "mounted", "unmounted"
    now,                \* the last value Date.now() returned
    dataRef,            \* dataRef.current: sequence of [timestamp, temperature]
    zoomStateRef,       \* zoomStateRef.current: [start, end]
    currentZoomLevel,   \* useState<string>('1 Hour')
    isZoomedIn,         \* useState(false)
    echartsInstance,    \* echartsInstanceRef.current is not null
    interval,           \* the setInterval timer is active
    chart,              \* what the rendering surface last received
    ticks,              \* runs of updateChartData so far
    apiIssued,          \* calls of ApiService.getHistoricalTemperatureData so far
    apiPending,         \* requests in flight: id -> "fetch" | "json"
    apiSettled,         \* promises settled, in order: [id, outcome, latest]
    startConnectionCalls, \* calls of signalRService.startConnection so far
    onPlantTemperatureReceivedCalls, \* calls of signalRService.onPlantTemperatureReceived so far
    listeners,          \* SignalRService.listeners
    connState,          \* connection.state
    handlers,           \* 'ReceivePlantTemperature' handlers registered with connection.on
    startAttempts,      \* calls of connection.start() so far
    starting,           \* the startConnection call awaiting connection.start(), 0 if none
    srSettled,          \* startConnection promises settled, in order: [id, outcome, error]
    lastStartError,     \* what connection.start() last rejected with, "" if it never did
    srLast,             \* the last operation on the service: [op, cb]
    invoked,            \* times each callback ran for the last message
    messages,           \* messages received so far
    losses,             \* losses of the connection so far
    spikeIn,            \* SpecSpikes: the series handed to detectSpikes
    spikeOut,           \* SpecSpikes: its result
    spikeDone,          \* SpecSpikes: detectSpikes has run
    enabled,            \* SPIKE_CONFIG.enabled
    zoomEvent,          \* SpecDataZoom: the params of the last dataZoom event
    zoomBefore,         \* SpecDataZoom: range, label and flag before that event
    widthA,             \* SpecZoom: two zoom widths, widthA <= widthB
    widthB,
    levelA,             \* SpecZoom: getZoomLevel of each
    levelB,
    zoomDone            \* SpecZoom: getZoomLevel has run

compVars == << phase, now, dataRef, zoomStateRef, currentZoomLevel, isZoomedIn,
               echartsInstance, interval, chart, ticks >>

apiVars == << apiIssued, apiPending, apiSettled >>

signalRVars == << startConnectionCalls, onPlantTemperatureReceivedCalls, listeners,
                  connState, handlers, startAttempts, starting, srSettled,
                  lastStartError, srLast, invoked, messages, losses >>

spikeVars == << spikeIn, spikeOut, spikeDone, enabled >>

evVars == << zoomEvent, zoomBefore >>

zoomVars == << widthA, widthB, levelA, levelB, zoomDone >>

vars == << compVars, apiVars, signalRVars, spikeVars, zoomVars, evVars >>

\* ------------------------------------------------------- pure functions

Last(s) == s[Len(s)]

\* A faulty detectSpikes: both thresholds inclusive.
detectSpikes_Inclusive(data) ==
    [ upperSpikes |-> SelectSeq(data, LAMBDA p : p.temperature >= upperThreshold),
      lowerSpikes |-> SelectSeq(data, LAMBDA p : p.temperature <= lowerThreshold) ]

\* A faulty detectSpikes: SPIKE_CONFIG.enabled is not consulted.
detectSpikes_AlwaysOn(data) ==
    [ upperSpikes |-> SelectSeq(data, LAMBDA p : p.temperature > upperThreshold),
      lowerSpikes |-> SelectSeq(data, LAMBDA p :
                         ~(p.temperature > upperThreshold)
                         /\ p.temperature < lowerThreshold) ]

\* detectSpikes: forEach keeps the order of data in both results.
detectSpikes(data) ==
    IF ~enabled
    THEN [ upperSpikes |-> << >>, lowerSpikes |-> << >> ]
    ELSE [ upperSpikes |-> SelectSeq(data, LAMBDA p : p.temperature > upperThreshold),
           lowerSpikes |-> SelectSeq(data, LAMBDA p :
                              ~(p.temperature > upperThreshold)
                              /\ p.temperature < lowerThreshold) ]

\* a <= b on JavaScript numbers: false when either is NaN.
LessEq(a, b) == a # NaN /\ b # NaN /\ a <= b

\* a - b on JavaScript values: NaN when either is undefined or NaN.
Minus(a, b) == IF a \in {undefined, NaN} \/ b \in {undefined, NaN} THEN NaN ELSE a - b

RECURSIVE zoomLevelFrom(_, _)
zoomLevelFrom(zoomRange, i) ==
    IF i > Len(ZOOM_LEVELS) THEN "1 Week"
    ELSE IF LessEq(zoomRange, parseFloat(ZOOM_LEVELS[i].key)) THEN ZOOM_LEVELS[i].level
    ELSE zoomLevelFrom(zoomRange, i + 1)

\* A faulty getZoomLevel: the ceiling exclusive.
RECURSIVE zoomLevelFrom_Exclusive(_, _)
zoomLevelFrom_Exclusive(zoomRange, i) ==
    IF i > Len(ZOOM_LEVELS) THEN "1 Week"
    ELSE IF zoomRange # NaN /\ zoomRange < parseFloat(ZOOM_LEVELS[i].key)
         THEN ZOOM_LEVELS[i].level
    ELSE zoomLevelFrom_Exclusive(zoomRange, i + 1)

getZoomLevel_Exclusive(zoomRange) == zoomLevelFrom_Exclusive(zoomRange, 1)

\* A faulty getZoomLevel: the comparison the wrong way round.
RECURSIVE zoomLevelFrom_Flipped(_, _)
zoomLevelFrom_Flipped(zoomRange, i) ==
    IF i > Len(ZOOM_LEVELS) THEN "1 Week"
    ELSE IF LessEq(parseFloat(ZOOM_LEVELS[i].key), zoomRange) THEN ZOOM_LEVELS[i].level
    ELSE zoomLevelFrom_Flipped(zoomRange, i + 1)

getZoomLevel_Flipped(zoomRange) == zoomLevelFrom_Flipped(zoomRange, 1)

getZoomLevel(zoomRange) == zoomLevelFrom(zoomRange, 1)

\* ------------------------------------------------- TemperatureChart: data

\* 3 * 24 * 60 * 60 * 1000: twoDaysAgo is now - HistorySpanMs.
HistorySpanMs == 3 * 24 * MsPerHour

\* The step of the loop of generateDummyData: 1000 in the code, here the
\* span divided into HistorySteps.
HistoryStride == HistorySpanMs \div HistorySteps

\* Temperatures generateDummyData can produce: anything in [-5, 5] after the
\* clamp, or a spike of magnitude 6 to 16.
HistoryTemps == {0, 60}

\* Temperatures updateChartData can produce: Math.round((r - 0.5) * 100) / 10
\* with r in [0, 1) lies in [-5, 5].
TickTemps == {50}

\* What Date.now() can have advanced by since it was last read when a tick
\* runs: one interval, or nothing or less after the system clock was set back.
ClockSteps == {0 - StepMs, 0, StepMs}

\* generateDummyData: one point per HistoryStride from now - HistorySpanMs to now
\* (inclusive); temps[k] is the k-th temperature drawn.
generateDummyData(clock, temps) ==
    [ k \in 1..(HistorySteps + 1) |->
        [ timestamp |-> clock - HistorySpanMs + (k - 1) * HistoryStride,
          temperature |-> temps[k] ] ]

\* What setOption hands to the rendering surface: the three series and the
\* zoom range of both dataZoom components.
Payload(data, zoom) ==
    [ series |-> data,
      upperSpikes |-> detectSpikes(data).upperSpikes,
      lowerSpikes |-> detectSpikes(data).lowerSpikes,
      start |-> zoom.start,
      end |-> zoom.end ]

\* (fraction / 100) * range as an exact number of milliseconds: whole
\* milliseconds ms and a rest of frac / Percent100.  The product is formed in
\* three digits of base 1000 so that no intermediate value leaves 32 bits.
Scaled(fraction, range) ==
    LET fh == fraction \div 1000
        fl == fraction % 1000
        rh == range \div 1000
        rl == range % 1000
        lo == fl * rl
        mid == fh * rl + fl * rh + (lo \div 1000)
        hi == fh * rh + (mid \div 1000)
    IN  [ ms |-> hi * 10 + ((mid % 1000) \div 100),
          frac |-> ((mid % 1000) % 100) * 1000 + (lo % 1000) ]

\* The projection of a zoom range onto the series:
\* visibleStart = dataStart + (start / 100) * totalRange, likewise visibleEnd.
\* A position that is undefined projects to NaN.
VisibleTime(data, position) ==
    LET dataStart == data[1].timestamp
        dataEnd == Last(data).timestamp
        totalRange == dataEnd - dataStart
    IN  IF position \in {undefined, NaN} THEN [ ms |-> NaN, frac |-> 0 ]
        ELSE [ ms |-> dataStart + Scaled(position, totalRange).ms,
               frac |-> Scaled(position, totalRange).frac ]

VisibleSpan(data, zoom) ==
    [ startTime |-> VisibleTime(data, zoom.start),
      endTime |-> VisibleTime(data, zoom.end) ]

\* A faulty visibleRangeHours: the span divided by (1000 * 60), so that the
\* test is against 3 minutes.
WithinZoomedInHours_Minutes(data, start, end) ==
    LET visibleRange == Scaled(Minus(end, start),
                               Last(data).timestamp - data[1].timestamp)
    IN  /\ Minus(end, start) # NaN
        /\ \/ visibleRange.ms < ZoomedInHours * (MsPerHour \div 60)
           \/ visibleRange.ms = ZoomedInHours * (MsPerHour \div 60) /\ visibleRange.frac = 0

\* visibleRangeHours <= 3, where visibleRangeHours is
\* (visibleEnd - visibleStart) / (1000 * 60 * 60); false on NaN.
WithinZoomedInHours(data, start, end) ==
    LET visibleRange == Scaled(Minus(end, start),
                               Last(data).timestamp - data[1].timestamp)
    IN  /\ Minus(end, start) # NaN
        /\ \/ visibleRange.ms < ZoomedInHours * MsPerHour
           \/ visibleRange.ms = ZoomedInHours * MsPerHour /\ visibleRange.frac = 0

\* ---------------------------------------------- TemperatureChart: actions

CompInit ==
    /\ phase = "constructed"
    /\ now = ClockStart
    /\ dataRef = << >>
    /\ zoomStateRef = [ start |-> 99990, end |-> Percent100 ]
    /\ currentZoomLevel = "1 Hour"
    /\ isZoomedIn = FALSE
    /\ echartsInstance = FALSE
    /\ interval = FALSE
    /\ chart = Payload(<< >>, [ start |-> 99990, end |-> Percent100 ])
    /\ ticks = 0

\* The two mount effects, in order: the initial load and setInterval.
Mount ==
    /\ phase = "constructed"
    /\ \E temps \in [ 1..(HistorySteps + 1) -> HistoryTemps ] :
          dataRef' = generateDummyData(now, temps)
    /\ interval' = TRUE
    /\ phase' = "mounted"
    /\ UNCHANGED << now, zoomStateRef, currentZoomLevel, isZoomedIn,
                    echartsInstance, chart, ticks >>

\* onChartReady: the chart was created from the option of the first render.
OnChartReady ==
    /\ phase \in {"constructed", "mounted"}
    /\ ~echartsInstance
    /\ echartsInstance' = TRUE
    /\ UNCHANGED << phase, now, dataRef, zoomStateRef, currentZoomLevel,
                    isZoomedIn, interval, chart, ticks >>

\* A faulty updateChartData: every tick puts the view back on the live edge.
updateChartData_FollowLive(clock, temperature) ==
    LET newPoint == [ timestamp |-> clock, temperature |-> temperature ]
    IN  /\ now' = clock
        /\ dataRef' = Append(dataRef, newPoint)
        /\ zoomStateRef' = IF echartsInstance
                           THEN [ start |-> 99990, end |-> Percent100 ]
                           ELSE zoomStateRef
        /\ chart' = IF echartsInstance THEN Payload(dataRef', zoomStateRef') ELSE chart
        /\ ticks' = ticks + 1
        /\ UNCHANGED << phase, currentZoomLevel, isZoomedIn, echartsInstance, interval >>

\* A faulty updateChartData: a sliding window that drops the oldest point for
\* every point it appends.
updateChartData_DropOldest(clock, temperature) ==
    LET newPoint == [ timestamp |-> clock, temperature |-> temperature ]
    IN  /\ now' = clock
        /\ dataRef' = IF Len(dataRef) > 0
                      THEN Tail(Append(dataRef, newPoint))
                      ELSE Append(dataRef, newPoint)
        /\ chart' = IF echartsInstance THEN Payload(dataRef', zoomStateRef) ELSE chart
        /\ ticks' = ticks + 1
        /\ UNCHANGED << phase, zoomStateRef, currentZoomLevel, isZoomedIn,
                        echartsInstance, interval >>

\* A faulty updateChartData: the new series is sent, the two spike series are
\* left as the surface has them.
updateChartData_StaleSpikes(clock, temperature) ==
    LET newPoint == [ timestamp |-> clock, temperature |-> temperature ]
    IN  /\ now' = clock
        /\ dataRef' = Append(dataRef, newPoint)
        /\ chart' = IF echartsInstance
                    THEN [ Payload(dataRef', zoomStateRef)
                             EXCEPT !.upperSpikes = chart.upperSpikes,
                                    !.lowerSpikes = chart.lowerSpikes ]
                    ELSE chart
        /\ ticks' = ticks + 1
        /\ UNCHANGED << phase, zoomStateRef, currentZoomLevel, isZoomedIn,
                        echartsInstance, interval >>

\* updateChartData, run by the interval timer.
updateChartData(clock, temperature) ==
    LET newPoint == [ timestamp |-> clock, temperature |-> temperature ]
    IN  /\ now' = clock
        /\ dataRef' = Append(dataRef, newPoint)
        /\ chart' = IF echartsInstance THEN Payload(dataRef', zoomStateRef) ELSE chart
        /\ ticks' = ticks + 1
        /\ UNCHANGED << phase, zoomStateRef, currentZoomLevel, isZoomedIn,
                        echartsInstance, interval >>

Tick ==
    /\ interval
    /\ ticks < MaxTicks
    /\ \E d \in ClockSteps, t \in TickTemps : updateChartData(now + d, t)

\* A faulty unmount: the interval effect returns no cleanup.
Unmount_NoClear ==
    /\ phase = "mounted"
    /\ phase' = "unmounted"
    /\ UNCHANGED << now, dataRef, zoomStateRef, currentZoomLevel, isZoomedIn,
                    echartsInstance, interval, chart, ticks >>

\* Unmount: the cleanup of the interval effect, clearInterval(interval).
Unmount ==
    /\ phase = "mounted"
    /\ phase' = "unmounted"
    /\ interval' = FALSE
    /\ UNCHANGED << now, dataRef, zoomStateRef, currentZoomLevel, isZoomedIn,
                    echartsInstance, chart, ticks >>

\* Zoom positions the rendering surface reports.
ZoomPositions == {0, 50000, Percent100}

\* dataZoom events: a batch whose first item may lack start or end, or an
\* event carrying start and end itself (or lacking one of them).
ZoomParams ==
    { [ batch |-> << [ start |-> s, end |-> e ] >>, start |-> undefined, end |-> undefined ] :
        s \in ZoomPositions \cup {undefined}, e \in ZoomPositions \cup {undefined} }
    \cup
    { [ batch |-> << >>, start |-> s, end |-> e ] :
        s \in ZoomPositions \cup {undefined}, e \in ZoomPositions \cup {undefined} }

\* A faulty dataZoom: the event's own start and end come before its batch.
dataZoom_OwnFirst(params) ==
    LET useOwn == params.start # undefined /\ params.end # undefined
        useBatch == ~useOwn /\ Len(params.batch) > 0
        start == IF useBatch THEN params.batch[1].start ELSE params.start
        end == IF useBatch THEN params.batch[1].end ELSE params.end
        zoomRange == Minus(end, start)
        level == getZoomLevel(zoomRange)
        zoomedIn == IF Len(dataRef) > 0
                    THEN WithinZoomedInHours(dataRef, start, end)
                    ELSE isZoomedIn
    IN  IF ~useBatch /\ ~useOwn
        THEN UNCHANGED compVars
        ELSE /\ zoomStateRef' = [ start |-> start, end |-> end ]
             /\ currentZoomLevel' = level
             /\ isZoomedIn' = zoomedIn
             /\ chart' = IF level # currentZoomLevel \/ zoomedIn # isZoomedIn
                         THEN Payload(dataRef, zoomStateRef')
                         ELSE chart
             /\ UNCHANGED << phase, now, dataRef, echartsInstance, interval, ticks >>

\* handleChartEvents.dataZoom; a state change re-renders the component and the
\* new option reaches the surface.
dataZoom(params) ==
    LET useBatch == Len(params.batch) > 0
        useOwn == ~useBatch /\ params.start # undefined /\ params.end # undefined
        start == IF useBatch THEN params.batch[1].start ELSE params.start
        end == IF useBatch THEN params.batch[1].end ELSE params.end
        zoomRange == Minus(end, start)
        level == getZoomLevel(zoomRange)
        zoomedIn == IF Len(dataRef) > 0
                    THEN WithinZoomedInHours(dataRef, start, end)
                    ELSE isZoomedIn
    IN  IF ~useBatch /\ ~useOwn
        THEN UNCHANGED compVars
        ELSE /\ zoomStateRef' = [ start |-> start, end |-> end ]
             /\ currentZoomLevel' = level
             /\ isZoomedIn' = zoomedIn
             /\ chart' = IF level # currentZoomLevel \/ zoomedIn # isZoomedIn
                         THEN Payload(dataRef, zoomStateRef')
                         ELSE chart
             /\ UNCHANGED << phase, now, dataRef, echartsInstance, interval, ticks >>

DataZoom ==
    /\ phase = "mounted"
    /\ echartsInstance
    /\ \E params \in ZoomParams :
          /\ \A i \in 1..Len(params.batch) :
                LessEq(params.batch[i].start, params.batch[i].end)
                \/ undefined \in {params.batch[i].start, params.batch[i].end}
          /\ LessEq(params.start, params.end) \/ undefined \in {params.start, params.end}
          /\ dataZoom(params)

\* dataZoom events that carry a batch and a start or end of their own, and
\* batches of two items.
ZoomParamsBoth ==
    { [ batch |-> << [ start |-> s, end |-> e ] >> \o rest, start |-> own[1], end |-> own[2] ] :
        s \in {0, undefined}, e \in {50000, undefined},
        rest \in { << >>, << [ start |-> 0, end |-> Percent100 ] >> },
        own \in { << 0, Percent100 >>, << 50000, undefined >> } }

\* dataZoom events from the left edge to just below and just above 3 hours
\* of a series of 3 days (3 / 72 of 100 percent is 4.1666...).
ZoomParamsNearHours ==
    { [ batch |-> << >>, start |-> 0, end |-> e ] : e \in {4166, 4167} }

\* No event yet: the range, label and flag of the first render.
EvInit ==
    /\ zoomEvent = [ batch |-> << >>, start |-> undefined, end |-> undefined ]
    /\ zoomBefore = [ zoom |-> [ start |-> 99990, end |-> Percent100 ],
                      level |-> "1 Hour", zoomedIn |-> FALSE ]

\* A dataZoom event of any shape, with its params and the state before it
\* kept for inspection.
RecordedDataZoom ==
    /\ phase = "mounted"
    /\ echartsInstance
    /\ \E params \in ZoomParams \cup ZoomParamsBoth \cup ZoomParamsNearHours :
          /\ \A i \in 1..Len(params.batch) :
                LessEq(params.batch[i].start, params.batch[i].end)
                \/ undefined \in {params.batch[i].start, params.batch[i].end}
          /\ LessEq(params.start, params.end) \/ undefined \in {params.start, params.end}
          /\ dataZoom(params)
          /\ zoomEvent' = params
          /\ zoomBefore' = [ zoom |-> zoomStateRef, level |-> currentZoomLevel,
                             zoomedIn |-> isZoomedIn ]

\* ------------------------------------------------------------ ApiService

ApiInit ==
    /\ apiIssued = 0
    /\ apiPending = {}
    /\ apiSettled = << >>

\* getHistoricalTemperatureData up to its first await: fetch(url) is issued.
\* The call takes no argument and the service keeps no state between calls.
GetHistoricalTemperatureData ==
    /\ apiIssued < MaxRequests
    /\ apiIssued' = apiIssued + 1
    /\ apiPending' = apiPending \cup { [ id |-> apiIssued + 1, stage |-> "fetch" ] }
    /\ UNCHANGED apiSettled

\* A faulty settling: a failed request is logged, reported and fetched again.
Settle_Retry(r, outcome) ==
    /\ apiPending' = IF outcome = "resolved"
                      THEN apiPending \ {r}
                      ELSE (apiPending \ {r}) \cup { [ id |-> r.id, stage |-> "fetch" ] }
    /\ apiSettled' = Append(apiSettled,
                            [ id |-> r.id, outcome |-> outcome, latest |-> apiIssued ])
    /\ UNCHANGED apiIssued

\* The promise of request r settles and its caller receives the outcome:
\* "resolved" (with data.data) or the error rethrown.  latest is the request
\* most recently issued at that moment.
Settle(r, outcome) ==
    /\ apiPending' = apiPending \ {r}
    /\ apiSettled' = Append(apiSettled,
                            [ id |-> r.id, outcome |-> outcome, latest |-> apiIssued ])
    /\ UNCHANGED apiIssued

\* fetch resolves with response.ok: the call goes on to await response.json().
FetchOk ==
    \E r \in apiPending :
        /\ r.stage = "fetch"
        /\ apiPending' = (apiPending \ {r}) \cup { [ id |-> r.id, stage |-> "json" ] }
        /\ UNCHANGED << apiIssued, apiSettled >>

\* fetch resolves with !response.ok: throw new Error('HTTP error! ...'),
\* caught, logged and rethrown.
FetchNotOk ==
    \E r \in apiPending : r.stage = "fetch" /\ Settle(r, "HTTP error")

\* fetch rejects (network error): caught, logged and rethrown.
FetchRejects ==
    \E r \in apiPending : r.stage = "fetch" /\ Settle(r, "fetch error")

\* response.json() resolves: return data.data.
JsonOk ==
    \E r \in apiPending : r.stage = "json" /\ Settle(r, "resolved")

\* response.json() rejects (malformed body): caught, logged and rethrown.
JsonRejects ==
    \E r \in apiPending : r.stage = "json" /\ Settle(r, "json error")

\* ------------------------------------------------------- SignalRService

\* The callbacks callers hand to the service.
Callbacks == {"cb1", "cb2"}

\* What connection.start() can reject with.
StartErrors == {"negotiation failed", "server unreachable"}

\* What connection.start() of @microsoft/signalr rejects with when the
\* connection is not in the Disconnected state.
NotDisconnected == "Cannot start a HubConnection that is not in the 'Disconnected' state."

srFrame == << onPlantTemperatureReceivedCalls, listeners, invoked, messages, losses >>

SignalRInit ==
    /\ startConnectionCalls = 0
    /\ onPlantTemperatureReceivedCalls = 0
    /\ listeners = {}
    /\ connState = "Disconnected"
    /\ handlers = 0
    /\ startAttempts = 0
    /\ starting = 0
    /\ srSettled = << >>
    /\ lastStartError = ""
    /\ srLast = [ op |-> "", cb |-> "" ]
    /\ invoked = [ cb \in Callbacks |-> 0 ]
    /\ messages = 0
    /\ losses = 0

\* startConnection up to its await.  Connected: return.  Otherwise
\* connection.start() is called: from Disconnected it begins to connect; from
\* any other state it rejects at once, and the catch rethrows.
StartConnection ==
    /\ startConnectionCalls < MaxStartCalls
    /\ startConnectionCalls' = startConnectionCalls + 1
    /\ srLast' = [ op |-> "startConnection", cb |-> "" ]
    /\ \/ /\ connState = "Connected"
          /\ srSettled' = Append(srSettled, [ id |-> startConnectionCalls + 1,
                                              outcome |-> "resolved", error |-> "" ])
          /\ UNCHANGED << connState, handlers, startAttempts, starting, lastStartError >>
       \/ /\ connState = "Disconnected"
          /\ startAttempts' = startAttempts + 1
          /\ connState' = "Connecting"
          /\ starting' = startConnectionCalls + 1
          /\ UNCHANGED << handlers, srSettled, lastStartError >>
       \/ /\ connState \in {"Connecting", "Reconnecting"}
          /\ startAttempts' = startAttempts + 1
          /\ lastStartError' = NotDisconnected
          /\ srSettled' = Append(srSettled, [ id |-> startConnectionCalls + 1,
                                              outcome |-> "rejected",
                                              error |-> NotDisconnected ])
          /\ UNCHANGED << connState, handlers, starting >>
    /\ UNCHANGED srFrame

\* connection.start() resolves: the call goes on to connection.on(...), which
\* adds a handler (a new closure each time), and resolves.
StartSucceeds ==
    /\ connState = "Connecting"
    /\ connState' = "Connected"
    /\ handlers' = handlers + 1
    /\ srSettled' = Append(srSettled, [ id |-> starting, outcome |-> "resolved", error |-> "" ])
    /\ starting' = 0
    /\ srLast' = [ op |-> "startSucceeded", cb |-> "" ]
    /\ UNCHANGED << startConnectionCalls, startAttempts, lastStartError >>
    /\ UNCHANGED srFrame

\* A faulty catch: the error is logged and not rethrown.
StartFails_Swallowed ==
    /\ connState = "Connecting"
    /\ connState' = "Disconnected"
    /\ \E err \in StartErrors :
          /\ lastStartError' = err
          /\ srSettled' = Append(srSettled,
                                 [ id |-> starting, outcome |-> "resolved", error |-> "" ])
    /\ starting' = 0
    /\ srLast' = [ op |-> "startFailed", cb |-> "" ]
    /\ UNCHANGED << startConnectionCalls, handlers, startAttempts >>
    /\ UNCHANGED srFrame

\* connection.start() rejects: caught, logged and rethrown; connection.on is
\* not reached.
StartFails ==
    /\ connState = "Connecting"
    /\ connState' = "Disconnected"
    /\ \E err \in StartErrors :
          /\ lastStartError' = err
          /\ srSettled' = Append(srSettled,
                                 [ id |-> starting, outcome |-> "rejected", error |-> err ])
    /\ starting' = 0
    /\ srLast' = [ op |-> "startFailed", cb |-> "" ]
    /\ UNCHANGED << startConnectionCalls, handlers, startAttempts >>
    /\ UNCHANGED srFrame

\* The established connection is lost: withAutomaticReconnect() tries again.
ConnectionLost ==
    /\ connState = "Connected"
    /\ losses < MaxLosses
    /\ losses' = losses + 1
    /\ connState' = "Reconnecting"
    /\ srLast' = [ op |-> "connectionLost", cb |-> "" ]
    /\ UNCHANGED << startConnectionCalls, onPlantTemperatureReceivedCalls, listeners,
                    handlers, startAttempts, starting, srSettled, lastStartError,
                    invoked, messages >>

\* The automatic reconnect succeeds: the handlers stay registered.
Reconnected ==
    /\ connState = "Reconnecting"
    /\ connState' = "Connected"
    /\ srLast' = [ op |-> "reconnected", cb |-> "" ]
    /\ UNCHANGED << startConnectionCalls, handlers, startAttempts, starting, srSettled,
                    lastStartError >>
    /\ UNCHANGED srFrame

\* The automatic reconnect gives up: the connection closes, its handlers
\* stay registered.
ReconnectFailed ==
    /\ connState = "Reconnecting"
    /\ connState' = "Disconnected"
    /\ srLast' = [ op |-> "closed", cb |-> "" ]
    /\ UNCHANGED << startConnectionCalls, handlers, startAttempts, starting, srSettled,
                    lastStartError >>
    /\ UNCHANGED srFrame

\* onPlantTemperatureReceived: this.listeners.add(callback).
OnPlantTemperatureReceived ==
    /\ onPlantTemperatureReceivedCalls < MaxRegistrations
    /\ onPlantTemperatureReceivedCalls' = onPlantTemperatureReceivedCalls + 1
    /\ \E cb \in Callbacks :
          /\ listeners' = listeners \cup {cb}
          /\ srLast' = [ op |-> "onPlantTemperatureReceived", cb |-> cb ]
    /\ UNCHANGED << startConnectionCalls, connState, handlers, startAttempts, starting,
                    srSettled, lastStartError, invoked, messages, losses >>

\* A faulty removeListener: this.listeners.clear().
removeListener_Clear(callback) == {}

\* removeListener: this.listeners.delete(callback); the listeners left.
removeListener(callback) == listeners \ {callback}

RemoveListener ==
    /\ \E cb \in Callbacks :
          /\ listeners' = removeListener(cb)
          /\ srLast' = [ op |-> "removeListener", cb |-> cb ]
    /\ UNCHANGED << startConnectionCalls, onPlantTemperatureReceivedCalls, connState,
                    handlers, startAttempts, starting, srSettled, lastStartError,
                    invoked, messages, losses >>

\* The hub sends 'ReceivePlantTemperature': every registered handler runs
\* this.listeners.forEach(listener => listener(data)).
ReceiveMessage ==
    /\ connState = "Connected"
    /\ messages < MaxMessages
    /\ messages' = messages + 1
    /\ invoked' = [ cb \in Callbacks |-> IF cb \in listeners THEN handlers ELSE 0 ]
    /\ srLast' = [ op |-> "message", cb |-> "" ]
    /\ UNCHANGED << startConnectionCalls, onPlantTemperatureReceivedCalls, listeners,
                    connState, handlers, startAttempts, starting, srSettled,
                    lastStartError, losses >>

\* ------------------------------------------------- harness of detectSpikes

\* Temperatures around both thresholds.
SpikeTemps == {lowerThreshold - 1, lowerThreshold, 0, upperThreshold, upperThreshold + 1}

\* Series of n points, StepMs apart, with temperatures from SpikeTemps.
SeriesOfLen(n) ==
    { [ k \in 1..n |-> [ timestamp |-> k * StepMs, temperature |-> temps[k] ] ] :
        temps \in [ 1..n -> SpikeTemps ] }

SpikeIdle ==
    /\ spikeIn = << >>
    /\ spikeOut = [ upperSpikes |-> << >>, lowerSpikes |-> << >> ]
    /\ spikeDone = FALSE
    /\ enabled = SPIKE_CONFIG_enabled

SpikeInit ==
    /\ spikeIn \in UNION { SeriesOfLen(n) : n \in 0..MaxSeriesLen }
    /\ spikeOut = [ upperSpikes |-> << >>, lowerSpikes |-> << >> ]
    /\ spikeDone = FALSE
    /\ enabled = SPIKE_CONFIG_enabled

\* The same series, with SPIKE_CONFIG.enabled set either way.
SpikeConfigInit ==
    /\ spikeIn \in UNION { SeriesOfLen(n) : n \in 0..MaxSeriesLen }
    /\ spikeOut = [ upperSpikes |-> << >>, lowerSpikes |-> << >> ]
    /\ spikeDone = FALSE
    /\ enabled \in BOOLEAN

DetectSpikes ==
    /\ ~spikeDone
    /\ spikeOut' = detectSpikes(spikeIn)
    /\ spikeDone' = TRUE
    /\ UNCHANGED << spikeIn, enabled >>

\* ------------------------------------------------- harness of getZoomLevel

Ceilings == { parseFloat(ZOOM_LEVELS[i].key) : i \in 1..Len(ZOOM_LEVELS) }

\* Zoom widths: around every ceiling, none, the whole range, and the widths
\* 1.0, 0.5, 0.1 and 0.02.
ZoomWidths ==
    { c + d : c \in Ceilings, d \in (0 - WidthSlack)..WidthSlack }
    \cup {0, 20, 100, 500, 1000, Percent100}

ZoomIdle ==
    /\ widthA = 0
    /\ widthB = 0
    /\ levelA = ""
    /\ levelB = ""
    /\ zoomDone = FALSE

ZoomInit ==
    /\ widthA \in ZoomWidths
    /\ widthB \in ZoomWidths
    /\ widthA <= widthB
    /\ levelA = ""
    /\ levelB = ""
    /\ zoomDone = FALSE

GetZoomLevel ==
    /\ ~zoomDone
    /\ levelA' = getZoomLevel(widthA)
    /\ levelB' = getZoomLevel(widthB)
    /\ zoomDone' = TRUE
    /\ UNCHANGED << widthA, widthB >>

\* --------------------------------------------------------- specifications

Init == SpikeIdle /\ CompInit /\ ApiInit /\ SignalRInit /\ ZoomIdle /\ EvInit

\* The component: nothing in it calls ApiService or SignalRService.
Next ==
    \/ Mount /\ UNCHANGED << apiVars, signalRVars, spikeVars, zoomVars, evVars >>
    \/ OnChartReady /\ UNCHANGED << apiVars, signalRVars, spikeVars, zoomVars, evVars >>
    \/ Tick /\ UNCHANGED << apiVars, signalRVars, spikeVars, zoomVars, evVars >>
    \/ DataZoom /\ UNCHANGED << apiVars, signalRVars, spikeVars, zoomVars, evVars >>
    \/ Unmount /\ UNCHANGED << apiVars, signalRVars, spikeVars, zoomVars, evVars >>

Spec == Init /\ [][Next]_vars

\* ApiService under any callers.
NextApi ==
    \/ GetHistoricalTemperatureData /\ UNCHANGED << compVars, signalRVars, spikeVars, zoomVars, evVars >>
    \/ FetchOk /\ UNCHANGED << compVars, signalRVars, spikeVars, zoomVars, evVars >>
    \/ FetchNotOk /\ UNCHANGED << compVars, signalRVars, spikeVars, zoomVars, evVars >>
    \/ FetchRejects /\ UNCHANGED << compVars, signalRVars, spikeVars, zoomVars, evVars >>
    \/ JsonOk /\ UNCHANGED << compVars, signalRVars, spikeVars, zoomVars, evVars >>
    \/ JsonRejects /\ UNCHANGED << compVars, signalRVars, spikeVars, zoomVars, evVars >>

SpecApi == Init /\ [][NextApi]_vars

\* ApiService under any callers, next to the component mounting.
NextMountedApi ==
    \/ Mount /\ UNCHANGED << apiVars, signalRVars, spikeVars, zoomVars, evVars >>
    \/ OnChartReady /\ UNCHANGED << apiVars, signalRVars, spikeVars, zoomVars, evVars >>
    \/ GetHistoricalTemperatureData /\ UNCHANGED << compVars, signalRVars, spikeVars, zoomVars, evVars >>
    \/ FetchOk /\ UNCHANGED << compVars, signalRVars, spikeVars, zoomVars, evVars >>
    \/ FetchNotOk /\ UNCHANGED << compVars, signalRVars, spikeVars, zoomVars, evVars >>
    \/ FetchRejects /\ UNCHANGED << compVars, signalRVars, spikeVars, zoomVars, evVars >>
    \/ JsonOk /\ UNCHANGED << compVars, signalRVars, spikeVars, zoomVars, evVars >>
    \/ JsonRejects /\ UNCHANGED << compVars, signalRVars, spikeVars, zoomVars, evVars >>

SpecMountedApi == Init /\ [][NextMountedApi]_vars

\* The component with dataZoom events of every shape.
NextDataZoom ==
    \/ Mount /\ UNCHANGED << apiVars, signalRVars, spikeVars, zoomVars, evVars >>
    \/ OnChartReady /\ UNCHANGED << apiVars, signalRVars, spikeVars, zoomVars, evVars >>
    \/ RecordedDataZoom /\ UNCHANGED << apiVars, signalRVars, spikeVars, zoomVars >>

SpecDataZoom == Init /\ [][NextDataZoom]_vars

\* SignalRService under any callers and any hub.
NextSignalR ==
    \/ StartConnection /\ UNCHANGED << compVars, apiVars, spikeVars, zoomVars, evVars >>
    \/ StartSucceeds /\ UNCHANGED << compVars, apiVars, spikeVars, zoomVars, evVars >>
    \/ StartFails /\ UNCHANGED << compVars, apiVars, spikeVars, zoomVars, evVars >>
    \/ ConnectionLost /\ UNCHANGED << compVars, apiVars, spikeVars, zoomVars, evVars >>
    \/ Reconnected /\ UNCHANGED << compVars, apiVars, spikeVars, zoomVars, evVars >>
    \/ ReconnectFailed /\ UNCHANGED << compVars, apiVars, spikeVars, zoomVars, evVars >>
    \/ OnPlantTemperatureReceived /\ UNCHANGED << compVars, apiVars, spikeVars, zoomVars, evVars >>
    \/ RemoveListener /\ UNCHANGED << compVars, apiVars, spikeVars, zoomVars, evVars >>
    \/ ReceiveMessage /\ UNCHANGED << compVars, apiVars, spikeVars, zoomVars, evVars >>

SpecSignalR == Init /\ [][NextSignalR]_vars

\* detectSpikes on every series of the harness.
InitSpikes == SpikeInit /\ CompInit /\ ApiInit /\ SignalRInit /\ ZoomIdle /\ EvInit

NextSpikes == DetectSpikes /\ UNCHANGED << compVars, apiVars, signalRVars, zoomVars, evVars >>

SpecSpikes == InitSpikes /\ [][NextSpikes]_vars

\* detectSpikes on every series of the harness, under either setting of
\* SPIKE_CONFIG.enabled.
InitSpikeConfig == SpikeConfigInit /\ CompInit /\ ApiInit /\ SignalRInit /\ ZoomIdle /\ EvInit

NextSpikeConfig == DetectSpikes /\ UNCHANGED << compVars, apiVars, signalRVars, zoomVars, evVars >>

SpecSpikeConfig == InitSpikeConfig /\ [][NextSpikeConfig]_vars

\* getZoomLevel on every pair of widths of the harness.
InitZoom == SpikeIdle /\ CompInit /\ ApiInit /\ SignalRInit /\ ZoomInit /\ EvInit

NextZoom == GetZoomLevel /\ UNCHANGED << compVars, apiVars, signalRVars, spikeVars, evVars >>

SpecZoom == InitZoom /\ [][NextZoom]_vars

\* --------------------------------------------- vocabulary of the claims

\* p is one of the points of s.
InSeq(p, s) == \E i \in 1..Len(s) : s[i] = p

\* The label of the entry with the lowest ceiling that is >= width.
LevelByCeiling(width) ==
    LET fits == { i \in 1..Len(ZOOM_LEVELS) : parseFloat(ZOOM_LEVELS[i].key) >= width }
    IN  IF fits = {} THEN "1 Week"
        ELSE ZOOM_LEVELS[CHOOSE i \in fits :
                            \A j \in fits : parseFloat(ZOOM_LEVELS[i].key)
                                              <= parseFloat(ZOOM_LEVELS[j].key)].level

\* The place of a label in the order of the table, '1 Week' after all.
Coarseness(level) ==
    IF \E i \in 1..Len(ZOOM_LEVELS) : ZOOM_LEVELS[i].level = level
    THEN CHOOSE i \in 1..Len(ZOOM_LEVELS) : ZOOM_LEVELS[i].level = level
    ELSE Len(ZOOM_LEVELS) + 1

\* The labels of the widths 1.0, 0.5, 0.1 and 0.02.
ExampleLevel(width, level) ==
    \/ width # 1000 /\ width # 500 /\ width # 100 /\ width # 20
    \/ width = 1000 /\ level = "1 Week"
    \/ width = 500 /\ level = "1 Hour"
    \/ width = 100 /\ level = "5 Minutes"
    \/ width = 20 /\ level = "30 Seconds"

\* ------------------------------------------------------------------ claims

\* The time t (ms) lies within span, whose ends are whole milliseconds ms
\* plus frac / Percent100; false when an end is NaN.
InsideSpan(t, span) ==
    /\ span.startTime.ms # NaN
    /\ span.endTime.ms # NaN
    /\ \/ span.startTime.ms < t
       \/ span.startTime.ms = t /\ span.startTime.frac <= 0
    /\ \/ t < span.endTime.ms
       \/ t = span.endTime.ms /\ span.endTime.frac >= 0

\* The length of span is at most limit ms; false when an end is NaN.
SpanAtMost(span, limit) ==
    /\ span.startTime.ms # NaN
    /\ span.endTime.ms # NaN
    /\ \/ span.endTime.ms - span.startTime.ms < limit
       \/ /\ span.endTime.ms - span.startTime.ms = limit
          /\ span.endTime.frac - span.startTime.frac <= 0

\* The last dataZoom event passed the handler's early return.
ZoomEventTaken ==
    \/ Len(zoomEvent.batch) > 0
    \/ zoomEvent.start # undefined /\ zoomEvent.end # undefined

\* p is above the upper threshold; p is below the lower threshold.
AboveUpper(p) == p.temperature > upperThreshold

BelowLower(p) == p.temperature < lowerThreshold

\* C1.  After the initial load and any sequence of live ticks the buffer is
\* strictly ascending by timestamp, with no two points sharing one, whatever
\* the clock returns at a tick.  updateChartData appends the point as it is,
\* so a clock that has not advanced since the last point breaks the order.
StrictlySorted ==
    \A i \in 1..(Len(dataRef) - 1) : dataRef[i].timestamp < dataRef[i + 1].timestamp

\* C2.  detectSpikes puts a point in the upper spikes iff its temperature is
\* above the upper threshold, in the lower spikes iff it is below the lower
\* threshold, and never in both; a point within [-5, 5] is in neither.
SpikesByThreshold ==
    spikeDone =>
        \A i \in 1..Len(spikeIn) :
            LET p == spikeIn[i]
            IN  /\ InSeq(p, spikeOut.upperSpikes) <=> p.temperature > upperThreshold
                /\ InSeq(p, spikeOut.lowerSpikes) <=> p.temperature < lowerThreshold
                /\ ~(InSeq(p, spikeOut.upperSpikes) /\ InSeq(p, spikeOut.lowerSpikes))
                /\ (lowerThreshold <= p.temperature /\ p.temperature <= upperThreshold)
                      => ~InSeq(p, spikeOut.upperSpikes) /\ ~InSeq(p, spikeOut.lowerSpikes)

\* detectSpikes has run on a series with a point on the upper threshold, one
\* above it and one below the lower threshold.
SpikesByThresholdWitness ==
    /\ spikeDone
    /\ \E i, j, k \in 1..Len(spikeIn) :
          /\ spikeIn[i].temperature = upperThreshold
          /\ spikeIn[j].temperature > upperThreshold
          /\ spikeIn[k].temperature < lowerThreshold
    /\ Len(spikeOut.upperSpikes) = 1
    /\ Len(spikeOut.lowerSpikes) = 1

\* C3.  getZoomLevel returns the label of the entry of ZOOM_LEVELS with the
\* lowest ceiling that is >= the width, and '1 Week' when no ceiling is.
FirstCeilingAtLeastWidth ==
    zoomDone => levelA = LevelByCeiling(widthA) /\ levelB = LevelByCeiling(widthB)

\* getZoomLevel has run on the highest ceiling and on the width just above it.
FirstCeilingAtLeastWidthWitness ==
    /\ zoomDone
    /\ widthA = 950 /\ levelA = "1 Day"
    /\ widthB = 951 /\ levelB = "1 Week"

\* C4.  getZoomLevel is monotonic: of two widths, the narrower gets a label
\* that is finer than or equal to that of the wider; and the widths 1.0, 0.5,
\* 0.1 and 0.02 get '1 Week', '1 Hour', '5 Minutes' and '30 Seconds'.
ZoomLevelMonotonic ==
    zoomDone =>
        /\ (widthA <= widthB => Coarseness(levelA) <= Coarseness(levelB))
        /\ ExampleLevel(widthA, levelA)
        /\ ExampleLevel(widthB, levelB)

\* getZoomLevel has run on two widths of the example that get different labels.
ZoomLevelMonotonicWitness ==
    /\ zoomDone
    /\ widthA = 20 /\ widthB = 1000
    /\ Coarseness(levelA) < Coarseness(levelB)

\* C5.  The buffer has bounded length: it never grows beyond a fixed bound,
\* here the loaded history plus a margin.  Every tick appends one point and
\* no operation of the component removes one, so any bound is passed once
\* enough ticks have run.
BoundedLength ==
    Len(dataRef) <= HistorySteps + 1 + BufferMargin

\* C6.  A live point that arrives while the visible span does not end at the
\* newest point of the buffer leaves the visible span (the projection of the
\* stored zoom range onto the series) as it was.  Stated for a point later
\* than every point of the buffer, so that it does not rest on C1.
ViewUndisturbed ==
    [][ ( /\ ticks' = ticks + 1
          /\ Len(dataRef) > 0
          /\ zoomStateRef.start # undefined
          /\ zoomStateRef.end # undefined
          /\ VisibleTime(dataRef, zoomStateRef.end)
                # [ ms |-> Last(dataRef).timestamp, frac |-> 0 ]
          /\ \A i \in 1..Len(dataRef) : dataRef[i].timestamp < now' )
        => VisibleSpan(dataRef', zoomStateRef') = VisibleSpan(dataRef, zoomStateRef) ]_vars

\* C7.  Of requests in flight together only the response to the one issued
\* last is delivered; a response to an earlier one is discarded.
\* getHistoricalTemperatureData neither aborts nor remembers an earlier call,
\* so every call settles towards its caller.
OnlyLatestResponseDelivered ==
    \A i \in 1..Len(apiSettled) :
        apiSettled[i].outcome = "resolved" => apiSettled[i].id = apiSettled[i].latest

\* C8.  Once the component is unmounted the timer is cleared, nothing of the
\* service is pending for it, and no tick runs again: the buffer and the
\* rendering surface stay as they are.
NoCallbackAfterUnmount ==
    [][ /\ phase' = "unmounted" => ~interval' /\ apiPending' = {} /\ listeners' = {}
        /\ phase = "unmounted" =>
              dataRef' = dataRef /\ chart' = chart /\ ticks' = ticks ]_vars

\* The component was unmounted after a tick had reached the rendering surface.
NoCallbackAfterUnmountWitness ==
    /\ phase = "unmounted"
    /\ ticks >= 1
    /\ echartsInstance
    /\ chart.series = dataRef

\* C9.  The mounted component fetches the historical data: by its first tick
\* (a second after mount) or by its unmount, getHistoricalTemperatureData has
\* been called.  The mount effect fills the buffer from generateDummyData.
FetchesHistoricalOnMount ==
    (ticks >= 1 \/ phase = "unmounted") => apiIssued >= 1

\* C10.  The mounted component subscribes to the live feed: by its first tick
\* or by its unmount, startConnection and onPlantTemperatureReceived have been
\* called.  The component's only feed is its own interval timer.
SubscribesOnMount ==
    (ticks >= 1 \/ phase = "unmounted") =>
        startConnectionCalls >= 1 /\ onPlantTemperatureReceivedCalls >= 1


\* C11: a startConnection call made while the feed is already active,
\* Connected or still Connecting, is a no-op: connection.start() is not
\* called again, no second handler is registered, the connection state is
\* left alone and the call resolves.
StartWhileActiveIsNoOp ==
    [][ ( /\ startConnectionCalls' = startConnectionCalls + 1
          /\ connState \in {"Connecting", "Connected"} )
        => ( /\ startAttempts' = startAttempts
             /\ handlers' = handlers
             /\ connState' = connState
             /\ starting' = starting
             /\ srSettled' = Append(srSettled, [ id |-> startConnectionCalls + 1,
                                                 outcome |-> "resolved",
                                                 error |-> "" ]) ) ]_vars


\* C12: removeListener raises no error and leaves exactly the listeners other
\* than its callback, so a second call for the same callback, or a call for a
\* callback never registered, leaves the set as it was; and a message invokes
\* no callback that is not in the listener set.
RemoveListenerIdempotent ==
    [][ /\ srLast'.op = "removeListener"
           => /\ listeners' = listeners \ {srLast'.cb}
              /\ srLast'.cb \notin listeners => listeners' = listeners
        /\ srLast'.op = "message"
           => \A cb \in Callbacks \ listeners : invoked'[cb] = 0 ]_vars

\* removeListener was just called for a callback that was never registered
\* (the one registration so far was of the other callback), after a message
\* reached the one listener.
RemoveListenerIdempotentWitness ==
    /\ srLast = [ op |-> "removeListener", cb |-> "cb1" ]
    /\ onPlantTemperatureReceivedCalls = 1
    /\ listeners = {"cb2"}
    /\ invoked = [ cb \in Callbacks |-> IF cb = "cb2" THEN 1 ELSE 0 ]
    /\ messages = 1


\* C13: when a historical request fails (HTTP error, network error or
\* malformed body), the failure leaves the buffer, the chart and the mounted
\* component as they were, issues nothing by itself, and leaves the failed
\* request no longer pending with every other request untouched, so that the
\* service takes later requests as before.
FailedFetchHarmless ==
    [][ ( /\ Len(apiSettled') = Len(apiSettled) + 1
          /\ Last(apiSettled').outcome # "resolved" )
        => ( /\ dataRef' = dataRef
             /\ chart' = chart
             /\ phase' = phase
             /\ echartsInstance' = echartsInstance
             /\ apiIssued' = apiIssued
             /\ apiPending' = { r \in apiPending : r.id # Last(apiSettled').id } ) ]_vars

\* With the component mounted, its buffer loaded and its chart ready, a
\* request failed and a request issued after that failure resolved.
FailedFetchHarmlessWitness ==
    /\ phase = "mounted"
    /\ echartsInstance
    /\ Len(dataRef) > 0
    /\ \E i, j \in 1..Len(apiSettled) :
          /\ i < j
          /\ apiSettled[i].outcome # "resolved"
          /\ apiSettled[j].outcome = "resolved"
          /\ apiSettled[j].id > apiSettled[i].latest


TickRegeneratesSpikes ==
    [][ ( ticks' = ticks + 1 /\ echartsInstance )
        => ( /\ chart'.series = dataRef'
             /\ Last(chart'.series).timestamp = now'
             /\ chart'.upperSpikes = SelectSeq(dataRef', AboveUpper)
             /\ chart'.lowerSpikes = SelectSeq(dataRef', BelowLower) ) ]_vars

\* The first tick reached the surface before any zoom, and the update
\* carried an upper spike of the buffer.
TickRegeneratesSpikesWitness ==
    /\ ticks = 1
    /\ echartsInstance
    /\ zoomStateRef = [ start |-> 99990, end |-> Percent100 ]
    /\ chart.series = dataRef
    /\ Len(chart.upperSpikes) > 0


\* C16: the stored zoom range is always well-formed: its start and its end
\* are numbers between 0 and 100 percent, and start is at most end.
ZoomRangeWellFormed ==
    /\ zoomStateRef.start \in 0..Percent100
    /\ zoomStateRef.end \in 0..Percent100
    /\ zoomStateRef.start <= zoomStateRef.end


DisabledDetectsNothing ==
    ( spikeDone /\ ~enabled )
        => spikeOut = [ upperSpikes |-> << >>, lowerSpikes |-> << >> ]

\* Detection is disabled and detectSpikes has returned two empty series for a
\* series with a point above the upper and a point below the lower threshold.
DisabledDetectsNothingWitness ==
    /\ spikeDone
    /\ ~enabled
    /\ \E i, j \in 1..Len(spikeIn) :
          /\ spikeIn[i].temperature > upperThreshold
          /\ spikeIn[j].temperature < lowerThreshold
    /\ spikeOut = [ upperSpikes |-> << >>, lowerSpikes |-> << >> ]


\* C20: after a dataZoom event, if the event had a non-empty batch the stored
\* range is the start and end of the batch's first item, whatever start and
\* end the event itself carried; otherwise, if the event carried both start
\* and end, the stored range is that pair; otherwise the event was ignored:
\* range, label and zoomed-in flag are as before it.
ZoomEventPrecedence ==
    IF Len(zoomEvent.batch) > 0
    THEN zoomStateRef = [ start |-> zoomEvent.batch[1].start, end |-> zoomEvent.batch[1].end ]
    ELSE IF zoomEvent.start # undefined /\ zoomEvent.end # undefined
    THEN zoomStateRef = [ start |-> zoomEvent.start, end |-> zoomEvent.end ]
    ELSE [ zoom |-> zoomStateRef, level |-> currentZoomLevel, zoomedIn |-> isZoomedIn ]
            = zoomBefore

\* After a zoom that changed range and label, an event with an end and no
\* start, and no batch, was delivered and left range, label and flag alone.
ZoomEventPrecedenceWitness ==
    /\ Len(zoomEvent.batch) = 0
    /\ zoomEvent.start = undefined
    /\ zoomEvent.end = 50000
    /\ zoomBefore.zoom = [ start |-> 0, end |-> Percent100 ]
    /\ zoomBefore.level # "1 Hour"
    /\ zoomStateRef = zoomBefore.zoom
    /\ currentZoomLevel = zoomBefore.level
    /\ isZoomedIn = zoomBefore.zoomedIn


\* C21: after a dataZoom event that was not ignored, with a non-empty buffer,
\* the zoomed-in flag is true iff the visible span, first + start/100 *
\* (last - first) to first + end/100 * (last - first), is at most 3 hours
\* long; with an empty buffer the flag is as it was before the event.
FlagFollowsVisibleSpan ==
    ZoomEventTaken =>
        IF Len(dataRef) > 0
        THEN isZoomedIn <=> SpanAtMost(VisibleSpan(dataRef, zoomStateRef),
                                       ZoomedInHours * MsPerHour)
        ELSE isZoomedIn = zoomBefore.zoomedIn

\* A zoom event from the left edge to just above 3 hours of the 3 days
\* loaded turned the flag off, which an earlier event had turned on.
FlagFollowsVisibleSpanWitness ==
    /\ zoomEvent = [ batch |-> << >>, start |-> 0, end |-> 4167 ]
    /\ zoomBefore.zoomedIn
    /\ ~isZoomedIn
    /\ Len(dataRef) > 0
    /\ Last(dataRef).timestamp - dataRef[1].timestamp = HistorySpanMs


\* C22: in every reachable state, the initial one included, the displayed
\* zoom label is getZoomLevel of the width (end - start) of the stored zoom
\* range.
LabelMatchesRange ==
    currentZoomLevel = getZoomLevel(Minus(zoomStateRef.end, zoomStateRef.start))


\* C23: a received 'ReceivePlantTemperature' message invokes every
\* registered listener exactly once, and no other callback, whatever
\* startConnection calls, disconnections, restarts and registrations came
\* before.
ListenersInvokedOnce ==
    srLast.op = "message" =>
        \A cb \in Callbacks : invoked[cb] = IF cb \in listeners THEN 1 ELSE 0


\* C24: a step that changes the stored zoom range, the zoom label or the
\* zoomed-in flag leaves the buffer alone; the buffer changes only in the
\* initial load and in ticks; and a tick appends exactly one point after the
\* earlier points, leaves range, label and flag as they were, and, when it
\* reaches the surface, sends the stored range unchanged.
ZoomAndTickDisjoint ==
    [][ /\ ( \/ zoomStateRef' # zoomStateRef
             \/ currentZoomLevel' # currentZoomLevel
             \/ isZoomedIn' # isZoomedIn )
           => ( dataRef' = dataRef /\ ticks' = ticks )
        /\ dataRef' # dataRef => ( ticks' = ticks + 1 \/ phase = "constructed" )
        /\ ticks' = ticks + 1
           => /\ Len(dataRef') = Len(dataRef) + 1
              /\ SubSeq(dataRef', 1, Len(dataRef)) = dataRef
              /\ zoomStateRef' = zoomStateRef
              /\ currentZoomLevel' = currentZoomLevel
              /\ isZoomedIn' = isZoomedIn
              /\ echartsInstance
                 => /\ chart'.start = zoomStateRef.start
                    /\ chart'.end = zoomStateRef.end ]_vars

\* Zoom events have moved the view to the second half of the series, every
\* tick has run, and the surface holds the whole buffer with that range.
ZoomAndTickDisjointWitness ==
    /\ ticks = MaxTicks
    /\ zoomStateRef = [ start |-> 50000, end |-> Percent100 ]
    /\ Len(dataRef) = HistorySteps + 1 + MaxTicks
    /\ chart.series = dataRef
    /\ chart.start = 50000
    /\ chart.end = Percent100


\* C25: in every reachable state with a non-empty buffer, the zoomed-in flag
\* is true iff the visible span, projected from the stored zoom range onto
\* the buffer as it is, is at most 3 hours long.
FlagMatchesVisibleSpan ==
    Len(dataRef) > 0 =>
        ( isZoomedIn <=> SpanAtMost(VisibleSpan(dataRef, zoomStateRef),
                                    ZoomedInHours * MsPerHour) )

====
